---- MODULE Spec2Model ----
(***************************************************************************)
(* Model of the CAD modification backend: the sandboxed executor of        *)
(* generated CadQuery code (services/cq_ai_exec.py), the git-based version *)
(* timeline (services/timeline.py) and the retry loop of the prompt        *)
(* endpoint (api/endpoints_chat.py, chat_prompt).                          *)
(***************************************************************************)
EXTENDS Integers, Sequences, FiniteSets, TLC

(* ---------------------------- bounds ----------------------------------- *)
\* number of distinct geometries the model distinguishes
NumGeoms == 3
\* number of modification requests issued in one behaviour
MaxRequests == 2
\* number of host-side failures (generator, import, export, mesh conversion,
\* git) injected in one behaviour
MaxFaults == 1
\* commits a caller of the timeline class makes (direct timeline calls)
MaxCommits == 4
MaxModelCommits == 3
\* capacity of the execution history (the source's deque has maxlen 50)
HistoryMaxLen == 3
\* prompts the Onshape loop processes in one behaviour
MaxPrompts == 4

Geoms == 1..NumGeoms

(* ---------------------------- geometry --------------------------------- *)
\* Volume and area of a solid, in units of 1e-4 (one digit below the
\* precision the signature keeps).  Geometries 1 and 2 differ only below
\* the rounding precision; geometry 3 differs from both.
Volume(g) == 10000000 + 4 * (g - 1)
Area(g) == 6000000 + 2 * (g - 1)

\* rounding that keeps two decimals
round3_two_decimals(x) == ((x + 50) \div 100) * 10
\* round(x, 3) on a value given in 1e-4 units: result in 1e-3 units
round3(x) == (x + 5) \div 10

\* a signature that compares the raw scalars (no rounding)
bbox_sig_unrounded(g) == <<Volume(g), Area(g)>>
bbox_sig(g) == <<round3(Volume(g)), round3(Area(g))>>

(* ---------------------------- file contents ---------------------------- *)
NoFile == <<>>
StepOf(g) == <<"step", g>>
StlOf(g, tol) == <<"stl", g, tol>>
GlbOf(stl) == IF stl = NoFile THEN NoFile ELSE <<"glb", stl[2], stl[3]>>
\* cq.importers.importStep: the geometry a STEP file holds
importStep(f) == f[2]

FileNames == {"model.step", "preview.step", "preview.stl", "preview.glb"}

(* ---------------------------- sandbox texts ---------------------------- *)
TimeoutText == "Timed out after 45.0s running CadQuery code."
NoResultText == "No result returned from worker (possible pickle or import error)."
NoModifyText == "AI code must define a callable modify(model, *, params) function."
WrongTypeText == "modify() must return a cadquery.Workplane."
ExportFailText == "export failed"
ImportFailText == "__import__ not found"

\* names bound in safe_globals["__builtins__"] and safe_globals itself
safe_builtins_no_import ==
    {"abs", "min", "max", "sum", "len", "range", "enumerate", "zip",
     "float", "int", "str", "bool", "dict", "list", "set", "tuple",
     "print", "round"}
safe_builtins == {"__import__"} \cup safe_builtins_no_import
safe_globals == {"cq", "math"}

\* messages a snippet may raise with: arbitrary text, including the texts
\* the executor itself uses
RaiseMsgs == {"boom", "", TimeoutText, NoResultText}

\* behaviours of a generated snippet.  uses_import: the snippet executes an
\* import statement (and uses the module) before doing anything else.
SnippetKinds == {"nomodify", "raise", "wrongtype", "return", "exportfail",
                 "loop", "crash"}
Snippet(k, imp, m, g) == [kind |-> k, uses_import |-> imp, msg |-> m, geom |-> g]
Snippets ==
    {Snippet(k, imp, "", 0) : k \in SnippetKinds \ {"raise", "return"}, imp \in BOOLEAN}
    \cup {Snippet("raise", FALSE, m, 0) : m \in RaiseMsgs}
    \cup {Snippet("return", imp, "", g) : g \in Geoms, imp \in BOOLEAN}

NoSnippet == Snippet("none", FALSE, "", 0)

\* ExecResult(ok, error, step_path); step_path is modelled by the content
\* of the temporary STEP file it names, NoFile standing for None
ExecResult(ok, error, step_path) == [ok |-> ok, error |-> error, step_path |-> step_path]
\* None in the error field: a value that is no message text
NoError == "<None>"
NoExecResult == ExecResult(FALSE, "", NoFile)

VARIABLES
    sb,       \* one run_ai_cadquery invocation: caller position, worker, queue
              \* (intime: the worker's q.put came before the deadline)
    MODELS,   \* TRUE once the model is registered (upload done)
    dir,      \* the model directory: working files and the git repository
    req,      \* the chat_prompt request in progress: its locals and position
    obs,      \* observations about the request in progress (history only)
    nreq,     \* number of modification requests issued so far
    nfaults,  \* number of host-side failures injected so far
    tl,       \* the last direct call on the CADTimeline and its counters
    reg,      \* several models at once: the registries keyed by model id,
              \* the directories under DATA_DIR, the invocations in flight
    chat,     \* the classification of the last prompt and the heatmap file
    hist      \* the Onshape execution history, its file and the last call on it

vars == <<sb, MODELS, dir, req, obs, nreq, nfaults, tl, reg, chat, hist>>
ctlvars == <<MODELS, dir, req, obs, nreq, nfaults, tl, reg, chat, hist>>

(* ---------------------------- _worker ---------------------------------- *)
\* what the import statement of a snippet does under the given builtins:
\* TRUE when the import succeeds
import_allowed(builtins) == "__import__" \in builtins

\* a worker without the isinstance check of line 45
worker_report_no_typecheck(code, builtins) ==
    IF code.uses_import /\ ~import_allowed(builtins)
    THEN <<"error", ImportFailText>>
    ELSE CASE code.kind = "nomodify" -> <<"error", NoModifyText>>
           [] code.kind = "raise" -> <<"error", code.msg>>
           [] code.kind = "wrongtype" -> <<"ok", StepOf(1)>>
           [] code.kind = "exportfail" -> <<"error", ExportFailText>>
           [] code.kind = "return" -> <<"ok", StepOf(code.geom)>>
           [] OTHER -> <<>>
\* the tuple _worker puts on the queue for a snippet that runs to the end of
\* _worker, <<>> when the process ends or hangs without putting anything
worker_report(code, builtins) ==
    IF code.uses_import /\ ~import_allowed(builtins)
    THEN <<"error", ImportFailText>>
    ELSE CASE code.kind = "nomodify" -> <<"error", NoModifyText>>
           [] code.kind = "raise" -> <<"error", code.msg>>
           [] code.kind = "wrongtype" -> <<"error", WrongTypeText>>
           [] code.kind = "exportfail" -> <<"error", ExportFailText>>
           [] code.kind = "return" -> <<"ok", StepOf(code.geom)>>
           [] OTHER -> <<>>

\* p.is_alive()
is_alive(worker) == worker \in {"running", "reported"}

\* the state of the worker process once run_ai_cadquery has passed line 70-71
\* without killing it
worker_after_check_nokill(worker) == worker
\* the state of the worker process once run_ai_cadquery has passed line 70-71
worker_after_check(worker) == IF is_alive(worker) THEN "killed" ELSE worker

\* a result that passes the payload on in both fields
result_of_payload_twice(rep) ==
    IF rep[1] = "ok" THEN ExecResult(TRUE, NoError, rep[2])
    ELSE ExecResult(FALSE, rep[2], StepOf(1))
\* the ExecResult for a tuple taken from the queue (lines 85-88)
result_of(rep) ==
    IF rep[1] = "ok" THEN ExecResult(TRUE, NoError, rep[2])
    ELSE ExecResult(FALSE, rep[2], NoFile)

TimeoutResult == ExecResult(FALSE, TimeoutText, NoFile)
NoResult == ExecResult(FALSE, NoResultText, NoFile)

\* lines 70-88 of run_ai_cadquery: the result for a worker found in state
\* worker with queue q after the join
run_result(worker, q) ==
    IF is_alive(worker) THEN TimeoutResult
    ELSE IF q = <<>> THEN NoResult
    ELSE result_of(Head(q))

\* every result one invocation of run_ai_cadquery can return for a snippet
RunResults(code) ==
    LET rep == worker_report(code, safe_builtins)
    IN  {TimeoutResult}
        \cup (IF rep # <<>> THEN {result_of(rep)} ELSE {})
        \cup (IF code.kind = "crash" THEN {NoResult} ELSE {})

SbInit ==
    sb = [pc |-> "idle", code |-> NoSnippet, worker |-> "none", q |-> <<>>,
          elapsed |-> FALSE, imported |-> FALSE, result |-> NoExecResult,
          intime |-> FALSE]

\* lines 65-67: create the queue, start the worker process
RunStart(code) ==
    /\ UNCHANGED ctlvars
    /\ sb.pc = "idle"
    /\ sb' = [pc |-> "join", code |-> code, worker |-> "running", q |-> <<>>,
              elapsed |-> FALSE, imported |-> FALSE, result |-> NoExecResult,
          intime |-> FALSE]

\* the wall clock reaches the deadline of p.join(timeout=timeout_s)
DeadlineElapses ==
    /\ UNCHANGED ctlvars
    /\ sb.pc = "join"
    /\ ~sb.elapsed
    /\ sb' = [sb EXCEPT !.elapsed = TRUE]

\* a join without a timeout: it returns when the worker has exited
JoinReturns_no_timeout ==
    /\ UNCHANGED ctlvars
    /\ sb.pc = "join"
    /\ sb.worker = "exited"
    /\ sb' = [sb EXCEPT !.pc = "joined"]
\* line 68: p.join returns when the worker has exited or the deadline passed
JoinReturns ==
    /\ UNCHANGED ctlvars
    /\ sb.pc = "join"
    /\ sb.worker = "exited" \/ sb.elapsed
    /\ sb' = [sb EXCEPT !.pc = "joined"]

\* a return that leaves a live worker running
RunFinish_nokill ==
    /\ UNCHANGED ctlvars
    /\ sb.pc = "joined"
    /\ sb' = [sb EXCEPT !.pc = "returned",
                        !.result = run_result(sb.worker, sb.q)]
\* lines 70-88: kill a live worker, build the ExecResult
RunFinish ==
    /\ UNCHANGED ctlvars
    /\ sb.pc = "joined"
    /\ sb' = [sb EXCEPT !.pc = "returned",
                        !.worker = worker_after_check(sb.worker),
                        !.result = run_result(sb.worker, sb.q)]

\* the caller takes the result; the next invocation may start
RunReturn ==
    /\ UNCHANGED ctlvars
    /\ sb.pc = "returned"
    /\ sb' = [sb EXCEPT !.pc = "idle"]

\* line 37: the snippet's import statement runs against safe_globals
WorkerImport ==
    /\ UNCHANGED ctlvars
    /\ sb.worker = "running"
    /\ sb.code.uses_import
    /\ ~sb.imported
    /\ IF import_allowed(safe_builtins)
       THEN sb' = [sb EXCEPT !.imported = TRUE]
       ELSE sb' = [sb EXCEPT !.q = Append(sb.q, worker_report(sb.code, safe_builtins)),
                             !.worker = "reported", !.intime = ~sb.elapsed]

\* lines 37-56: the rest of _worker up to its q.put; a crashing snippet ends
\* the process without a put, a looping snippet never gets here
WorkerFinish ==
    /\ UNCHANGED ctlvars
    /\ sb.worker = "running"
    /\ sb.code.uses_import => sb.imported
    /\ sb.code.kind # "loop"
    /\ LET rep == worker_report(sb.code, safe_builtins)
       IN  IF rep # <<>>
           THEN sb' = [sb EXCEPT !.q = Append(sb.q, rep), !.worker = "reported",
                                 !.intime = ~sb.elapsed]
           ELSE sb' = [sb EXCEPT !.worker = "exited"]

\* the worker process exits after its q.put
WorkerExit ==
    /\ UNCHANGED ctlvars
    /\ sb.worker = "reported"
    /\ sb' = [sb EXCEPT !.worker = "exited"]

SandboxStep ==
    \/ \E code \in Snippets : RunStart(code)
    \/ DeadlineElapses
    \/ JoinReturns
    \/ RunFinish
    \/ RunReturn
    \/ WorkerImport
    \/ WorkerFinish
    \/ WorkerExit

(* ---------------------------- CADTimeline ------------------------------ *)
\* the directory before upload: no files, an empty repository
NoTree == [f \in FileNames |-> NoFile]
EmptyDir == [files |-> NoTree, objects |-> <<>>, head |-> 0, index |-> NoTree]

\* repo.iter_commits() reversed: commit ids from the root to c
RECURSIVE chain(_, _)
chain(d, c) == IF c = 0 THEN <<>> ELSE Append(chain(d, d.objects[c].parent), c)

\* repo.head.commit and repo.iter_commits() on a repository without commits:
\* GitPython raises ValueError, HEAD names a branch that does not exist yet
NoSuchRef == <<"ValueError", "Reference at 'refs/heads/master' does not exist">>

\* CADTimeline.get_history
get_history(d) ==
    IF d.head = 0
    THEN NoSuchRef
    ELSE LET commits == chain(d, d.head)
         IN  [i \in 1..Len(commits) |->
                 [version |-> i, commit_hash |-> commits[i],
                  message |-> d.objects[commits[i]].message]]

\* the commit ids get_history lists
history_commits(d) == {chain(d, d.head)[i] : i \in 1..Len(chain(d, d.head))}

\* a commit that leaves HEAD alone when the index equals the HEAD tree
save_revision_skip_unchanged(d, message, files) ==
    LET idx == [f \in FileNames |-> IF f \in files THEN d.files[f] ELSE d.index[f]]
    IN  IF d.head # 0 /\ d.objects[d.head].tree = idx
        THEN [d EXCEPT !.index = idx]
        ELSE [d EXCEPT !.index = idx,
                       !.objects = Append(@, [parent |-> d.head, tree |-> idx,
                                              message |-> message]),
                       !.head = Len(d.objects) + 1]
\* CADTimeline.save_revision: index.add(files), index.commit(message); the
\* commit is made whether or not the index differs from the HEAD tree
save_revision(d, message, files) ==
    LET idx == [f \in FileNames |-> IF f \in files THEN d.files[f] ELSE d.index[f]]
    IN  [d EXCEPT !.index = idx,
                  !.objects = Append(@, [parent |-> d.head, tree |-> idx,
                                         message |-> message]),
                  !.head = Len(d.objects) + 1]

\* a reset that overwrites the files and leaves HEAD where it was
revert_to_keep_head(d, commit_hash) ==
    [d EXCEPT !.index = d.objects[commit_hash].tree,
              !.files = d.objects[commit_hash].tree]
\* CADTimeline.revert_to: git reset --hard moves HEAD and overwrites the
\* index and every tracked working file with the commit's tree.  The commits
\* that were after it stay in the object store, no longer reachable from HEAD.
revert_to(d, commit_hash) ==
    [d EXCEPT !.head = commit_hash,
              !.index = d.objects[commit_hash].tree,
              !.files = d.objects[commit_hash].tree]

\* git checkout <hash> without a path: HEAD moves to the commit
checkout_version_detached(d, commit_hash) ==
    [d EXCEPT !.head = commit_hash,
              !.index = d.objects[commit_hash].tree,
              !.files = d.objects[commit_hash].tree]
\* CADTimeline.checkout_version: git checkout <hash> -- .
checkout_version(d, commit_hash) ==
    [d EXCEPT !.index = d.objects[commit_hash].tree,
              !.files = d.objects[commit_hash].tree]

\* a save_revision_from that resets to from_commit_hash in every case
save_revision_from_always_reset(d, from_commit_hash, message, files) ==
    save_revision(revert_to(d, from_commit_hash), message, files)
\* CADTimeline.save_revision_from
save_revision_from(d, from_commit_hash, message, files) ==
    IF from_commit_hash # d.head
    THEN save_revision(revert_to(d, from_commit_hash), message, files)
    ELSE save_revision(d, message, files)

\* a lookup that returns the oldest revision
get_current_version_oldest(d) ==
    IF d.head = 0
    THEN NoSuchRef
    ELSE get_history(d)[1]
\* CADTimeline.get_current_version; <<>> stands for None.  The except clause
\* names InvalidGitRepositoryError, so the ValueError of repo.head.commit
\* leaves the method.
get_current_version(d) ==
    IF d.head = 0
    THEN NoSuchRef
    ELSE LET history == get_history(d)
             hits == {i \in 1..Len(history) : history[i].commit_hash = d.head}
         IN  IF hits = {} THEN <<>>
             ELSE history[CHOOSE i \in hits : \A j \in hits : i <= j]

\* a lookup that falls back on the newest version
commit_of_version_clamped(d, version) ==
    LET history == get_history(d)
    IN  IF version \in 1..Len(history) THEN history[version].commit_hash
        ELSE IF version > Len(history) THEN d.head ELSE 0
\* the commit hash get_history lists for a version number, 0 when absent
commit_of_version(d, version) ==
    LET history == get_history(d)
    IN  IF version \in 1..Len(history) THEN history[version].commit_hash ELSE 0

(* ---------------------------- direct timeline calls -------------------- *)
\* A caller holding a CADTimeline of a fresh directory: it writes the model
\* files and calls the methods of the class in any order.

\* the four files of a model of geometry g, as a modification leaves them
ModelFiles(g) ==
    [f \in FileNames |->
        CASE f = "model.step" -> StepOf(g)
          [] f = "preview.step" -> StepOf(g)
          [] f = "preview.stl" -> StlOf(g, 4)
          [] f = "preview.glb" -> GlbOf(StlOf(g, 4))]

\* position of commit c in the history of d, 0 when it is not listed
version_of_commit(d, c) ==
    LET commits == chain(d, d.head)
        hits == {i \in 1..Len(commits) : commits[i] = c}
    IN  IF hits = {} THEN 0 ELSE CHOOSE i \in hits : TRUE

IdleTl ==
    [op |-> "none", commit |-> 0, k |-> 0, n |-> 0, saves |-> 0, truncs |-> 0,
     checked |-> FALSE, older |-> FALSE, status |-> 0]

\* index.add(files) raises FileNotFoundError for a path that does not exist
FilesExist(d) == \A f \in FileNames : d.files[f] # NoFile

\* the caller writes the files of a model into the directory
WriteModel(g) ==
    /\ dir' = [dir EXCEPT !.files = ModelFiles(g)]
    /\ tl' = [tl EXCEPT !.op = "write", !.commit = 0, !.k = 0, !.n = 0]
    /\ UNCHANGED <<hist, chat, reg, sb, MODELS, req, obs, nreq, nfaults>>

\* timeline.save_revision(message, files)
TlSaveRevision(message) ==
    /\ Len(dir.objects) < MaxCommits
    /\ FilesExist(dir)
    /\ dir' = save_revision(dir, message, FileNames)
    /\ tl' = [tl EXCEPT !.op = "save", !.commit = dir'.head, !.k = 0,
                        !.n = Len(chain(dir, dir.head)), !.saves = @ + 1,
                        !.older = FALSE]
    /\ UNCHANGED <<hist, chat, reg, sb, MODELS, req, obs, nreq, nfaults>>

\* a checkout of model.step alone
TlCheckoutVersion_model_only(c) ==
    /\ c \in 1..Len(dir.objects)
    /\ dir' = [dir EXCEPT
                 !.index["model.step"] = dir.objects[c].tree["model.step"],
                 !.files["model.step"] = dir.objects[c].tree["model.step"]]
    /\ tl' = [tl EXCEPT !.op = "checkout", !.commit = c,
                        !.k = version_of_commit(dir, c),
                        !.n = Len(chain(dir, dir.head)), !.checked = TRUE,
                        !.older = @ \/ (version_of_commit(dir, c)
                                            \in 1..(Len(chain(dir, dir.head)) - 1))]
    /\ UNCHANGED <<hist, chat, reg, sb, MODELS, req, obs, nreq, nfaults>>
\* timeline.checkout_version(commit_hash), with the id of any commit the
\* caller has seen in an earlier get_history
TlCheckoutVersion(c) ==
    /\ c \in 1..Len(dir.objects)
    /\ dir' = checkout_version(dir, c)
    /\ tl' = [tl EXCEPT !.op = "checkout", !.commit = c,
                        !.k = version_of_commit(dir, c),
                        !.n = Len(chain(dir, dir.head)), !.checked = TRUE,
                        !.older = @ \/ (version_of_commit(dir, c)
                                            \in 1..(Len(chain(dir, dir.head)) - 1))]
    /\ UNCHANGED <<hist, chat, reg, sb, MODELS, req, obs, nreq, nfaults>>

\* timeline.save_revision_from(from_commit_hash, message, files)
TlSaveRevisionFrom(c, message) ==
    /\ c \in 1..Len(dir.objects)
    /\ Len(dir.objects) < MaxCommits
    /\ FilesExist(dir)
    /\ dir' = save_revision_from(dir, c, message, FileNames)
    /\ tl' = [tl EXCEPT !.op = "save_from", !.commit = c,
                        !.k = version_of_commit(dir, c),
                        !.n = Len(chain(dir, dir.head)),
                        !.saves = @ + 1,
                        !.truncs = IF c # dir.head THEN @ + 1 ELSE @,
                        !.older = FALSE]
    /\ UNCHANGED <<hist, chat, reg, sb, MODELS, req, obs, nreq, nfaults>>

(* ---------------------------- upload ----------------------------------- *)
\* endpoints_cad._regen_preview: previews derived from model.step
regen_preview(files) ==
    LET wp == importStep(files["model.step"])
        stl == StlOf(wp, 2)
    IN  [files EXCEPT !["preview.stl"] = stl,
                      !["preview.glb"] = GlbOf(stl),
                      !["preview.step"] = StepOf(wp)]

\* the geometries of the uploaded STEP files; the requests then move the
\* model to every other geometry
UploadGeoms == {1}

\* endpoints_cad.upload_step
Upload(g) ==
    /\ ~MODELS
    /\ LET written == [dir.files EXCEPT !["model.step"] = StepOf(g)]
           d == [dir EXCEPT !.files = regen_preview(written)]
       IN  dir' = save_revision(d, <<"Initial upload">>, FileNames)
    /\ MODELS' = TRUE
    /\ UNCHANGED <<hist, chat, reg, sb, tl, req, obs, nreq, nfaults>>

\* endpoints_cad.apply: _apply_op on the loaded model.step gives a solid of
\* geometry g (translate, scale or add_box_handle with the request's
\* parameters); model.step, preview.stl and preview.glb are overwritten
Apply(g) ==
    /\ MODELS
    /\ req.pc = "idle"
    /\ LET stl == StlOf(g, 2)
       IN  dir' = [dir EXCEPT !.files["model.step"] = StepOf(g),
                              !.files["preview.stl"] = stl,
                              !.files["preview.glb"] = GlbOf(stl)]
    /\ UNCHANGED <<hist, chat, reg, sb, tl, MODELS, req, obs, nreq, nfaults>>

\* endpoints_cad.save_checkpoint: preview.step is copied over model.step
SaveCheckpoint ==
    /\ MODELS
    /\ req.pc = "idle"
    /\ dir.files["preview.stl"] # NoFile
    /\ dir.files["preview.step"] # NoFile
    /\ dir' = [dir EXCEPT !.files["model.step"] = dir.files["preview.step"]]
    /\ UNCHANGED <<hist, chat, reg, sb, tl, MODELS, req, obs, nreq, nfaults>>

(* ---------------------------- chat_prompt ------------------------------ *)
MAX_RETRIES == 3

NoOpText == "Model volume and area did not change. The modification had no visible effect."
GenFailText == "generator failed"
\* an exception text with a character outside ASCII, written \u00e8 here
LoadFailText == "importStep failed: mod\\u00e8le.step"
LoadFailTextAscii == "importStep failed: mod?le.step"
StlFailText == "STL export failed"
StepFailText == "STEP export failed"
GlbFailText == "Failed STL->GLB"
GitFailText == "git failed"

\* the instructions of the requests: TRUE for an instruction of 100 characters
\* or more, FALSE for a shorter one (whose revision message runs into the
\* feedback, see prompt_100).  Only long instructions are issued here.
InstructionKinds == {TRUE}

\* the snippets the generator returns in the controller's runs
GenSnippets ==
    {Snippet("return", FALSE, "", g) : g \in Geoms}
    \cup {Snippet("raise", FALSE, "boom", 0), Snippet("raise", FALSE, "", 0),
          Snippet("crash", FALSE, "", 0)}

\* A prompt is the instruction followed by the feedback blocks appended on
\* retries.  long: the instruction alone has 100 characters or more.
Prompt(long, feedback) == [long |-> long, feedback |-> feedback]
\* a feedback block without the error
FailedFeedback_noerr(err) == <<"Previous code failed with:", "">>
\* lines 968-972: the block appended after a sandbox result that is not ok
FailedFeedback(err) == <<"Previous code failed with:", err>>
NoChangeFeedback == <<"Your previous attempt produced no change">>

\* req.prompt[:100]: a long instruction fills the message; after a short one
\* the message runs into the first feedback block
prompt_100(prompt) ==
    IF prompt.long \/ prompt.feedback = <<>>
    THEN Prompt(prompt.long, <<>>)
    ELSE Prompt(FALSE, <<Head(prompt.feedback)>>)

IdleReq ==
    [pc |-> "idle", attempt |-> 0, prompt |-> Prompt(FALSE, <<>>), from_version |-> 0,
     last_err |-> "Unknown", last_code |-> NoSnippet, exec_res |-> NoExecResult,
     result_model |-> 0]

\* observations: what the request found, what its steps were given and what
\* they returned
IdleObs ==
    [start_model |-> NoFile, writes |-> 0, gen_calls |-> 0, exec_calls |-> 0,
     only_snippet_err |-> TRUE, objects_at_start |-> 0, snap |-> NoTree,
     from_commit |-> 0, head_before |-> 0, head_at_start |-> 0,
     gen_prompt |-> Prompt(FALSE, <<>>), exec_failed |-> FALSE, exec_error |-> "",
     last_failure |-> "Unknown", compared |-> <<>>]

\* the attempt in progress ended with error err; exec_failed: the sandbox
\* returned a result that is not ok, whose error text is exec_error
ObserveFailure(o, err, exec_failed, exec_error) ==
    [o EXCEPT !.last_failure = err, !.exec_failed = exec_failed,
              !.exec_error = exec_error]

\* endpoints_chat.checkout_version: POST /versions/{model_id}/checkout.  The
\* handlers are coroutines without an await inside, so one runs at a time.
CheckoutEndpoint(version) ==
    /\ MODELS
    /\ req.pc = "idle"
    /\ LET target_commit == commit_of_version(dir, version)
       IN  IF target_commit = 0
           THEN /\ tl' = [IdleTl EXCEPT !.op = "checkout", !.k = version,
                                        !.n = Len(get_history(dir)), !.status = 404]
                /\ UNCHANGED dir
           ELSE /\ tl' = [IdleTl EXCEPT !.op = "checkout", !.k = version,
                                        !.commit = target_commit,
                                        !.n = Len(get_history(dir)), !.status = 200]
                /\ dir' = checkout_version(dir, target_commit)
    /\ UNCHANGED <<hist, chat, reg, sb, MODELS, req, obs, nreq, nfaults>>

\* lines 840-946 for a modification intent: from_version 0 stands for None
StartRequest(long, from_version) ==
    /\ MODELS
    /\ req.pc = "idle"
    /\ nreq < MaxRequests
    /\ nreq' = nreq + 1
    /\ req' = [IdleReq EXCEPT !.pc = "gen", !.prompt = Prompt(long, <<>>),
                              !.from_version = from_version]
    /\ obs' = [IdleObs EXCEPT !.start_model = dir.files["model.step"],
                              !.objects_at_start = Len(dir.objects),
                              !.head_at_start = dir.head]
    /\ UNCHANGED <<hist, chat, reg, sb, tl, MODELS, dir, nfaults>>

\* the for loop running one iteration too many
next_attempt_pc_extra(attempt, max_retries) ==
    IF attempt < max_retries THEN "gen" ELSE "failed"
\* the position after an attempt has ended without success: the for loop
\* takes the next attempt or falls through to the final error
next_attempt_pc(attempt, max_retries) ==
    IF attempt + 1 < max_retries THEN "gen" ELSE "failed"

\* an attempt that keeps the first error recorded
FailAttempt_keep_first(err, feedback) ==
    /\ req' = [req EXCEPT !.last_err = IF @ = "Unknown" THEN err ELSE @,
                          !.prompt.feedback = IF feedback = <<>> THEN @ ELSE Append(@, feedback),
                          !.attempt = @ + 1,
                          !.last_code = NoSnippet,
                          !.exec_res = NoExecResult,
                          !.result_model = 0,
                          !.pc = next_attempt_pc(req.attempt, MAX_RETRIES)]
\* the end of a failed attempt: last_err set, prompt possibly extended.  The
\* locals last_code, exec_res and result_model are dead from here until their
\* next assignment and are cleared.
FailAttempt(err, feedback) ==
    /\ req' = [req EXCEPT !.last_err = err,
                          !.prompt.feedback = IF feedback = <<>> THEN @ ELSE Append(@, feedback),
                          !.attempt = @ + 1,
                          !.last_code = NoSnippet,
                          !.exec_res = NoExecResult,
                          !.result_model = 0,
                          !.pc = next_attempt_pc(req.attempt, MAX_RETRIES)]

\* an exception raised by a host-side step: caught at line 1060
HostFailure(err) ==
    /\ nfaults < MaxFaults
    /\ nfaults' = nfaults + 1
    /\ FailAttempt(err, <<>>)

\* line 952: _openai_generate_cadquery returns code, one of snippets, or
\* raises
GenerateFrom(snippets) ==
    /\ req.pc = "gen"
    /\ \/ /\ \E code \in snippets :
                req' = [req EXCEPT !.last_code = code, !.pc = "exec"]
          /\ obs' = [obs EXCEPT !.gen_calls = @ + 1, !.gen_prompt = req.prompt,
                                !.exec_failed = FALSE, !.exec_error = "",
                                !.compared = <<>>]
          /\ UNCHANGED nfaults
       \/ /\ HostFailure(GenFailText)
          /\ obs' = [ObserveFailure(obs, GenFailText, FALSE, "")
                        EXCEPT !.gen_calls = @ + 1, !.gen_prompt = req.prompt,
                               !.only_snippet_err = FALSE, !.compared = <<>>]
    /\ UNCHANGED <<hist, chat, reg, sb, tl, MODELS, dir, nreq>>

Generate == GenerateFrom(GenSnippets)

\* a result that is a snippet-level error: the worker reported ("error", _)
is_snippet_error(code, res) ==
    LET rep == worker_report(code, safe_builtins)
    IN  rep # <<>> /\ rep[1] = "error" /\ res = result_of(rep)

\* line 967: exec_res.error or "Unknown execution error"
error_or_unknown(error) == IF error = "" THEN "Unknown execution error" ELSE error

\* lines 965-973: a result that is not ok ends the attempt, an ok one goes
\* on to the verification
TakeResult(res) ==
    IF ~res.ok \/ res.step_path = NoFile
    THEN /\ FailAttempt(error_or_unknown(res.error),
                        FailedFeedback(error_or_unknown(res.error)))
         /\ obs' = [ObserveFailure(obs, error_or_unknown(res.error),
                                   TRUE, res.error)
                        EXCEPT !.exec_calls = @ + 1,
                               !.only_snippet_err =
                                   @ /\ is_snippet_error(req.last_code, res)]
    ELSE /\ req' = [req EXCEPT !.exec_res = res, !.pc = "verify"]
         /\ obs' = [obs EXCEPT !.exec_calls = @ + 1, !.only_snippet_err = FALSE]

\* lines 957-973: run the sandbox and take its result
Execute ==
    /\ req.pc = "exec"
    /\ \E res \in RunResults(req.last_code) : TakeResult(res)
    /\ UNCHANGED <<hist, chat, reg, sb, tl, MODELS, dir, nreq, nfaults>>

\* lines 957-962 step by step: run_ai_cadquery is called with the generated
\* code and starts its worker
ExecuteStart ==
    /\ req.pc = "exec"
    /\ RunStart(req.last_code)

\* lines 963-973 step by step: run_ai_cadquery has returned, the handler
\* takes its result
ExecuteReturn ==
    /\ req.pc = "exec"
    /\ sb.pc = "returned"
    /\ TakeResult(sb.result)
    /\ sb' = [sb EXCEPT !.pc = "idle"]
    /\ UNCHANGED <<hist, chat, reg, tl, MODELS, dir, nreq, nfaults>>

\* line 982 comparing unrounded scalars
same_signature_unrounded(before, after) ==
    bbox_sig_unrounded(before) = bbox_sig_unrounded(after)
\* line 982: before == after
same_signature(before, after) == bbox_sig(before) = bbox_sig(after)

\* lines 976-991: load the result, compare the signatures
Verify ==
    /\ req.pc = "verify"
    /\ \/ /\ HostFailure(LoadFailText)
          /\ obs' = ObserveFailure(obs, LoadFailText, FALSE, "")
       \/ /\ LET result_model == importStep(req.exec_res.step_path)
                 before == importStep(dir.files["model.step"])
             IN  IF same_signature(before, result_model)
                 THEN /\ FailAttempt(NoOpText, NoChangeFeedback)
                      /\ obs' = [ObserveFailure(obs, NoOpText, FALSE, "")
                                    EXCEPT !.compared = <<before, result_model>>]
                 ELSE /\ req' = [req EXCEPT !.result_model = result_model,
                                            !.pc = "export"]
                      /\ obs' = [obs EXCEPT !.compared = <<before, result_model>>]
          /\ UNCHANGED nfaults
    /\ UNCHANGED <<hist, chat, reg, sb, tl, MODELS, dir, nreq>>

\* lines 994-1007: preview.stl (tolerance 4.0) and preview.step; an export
\* that raises leaves its file as it was
ExportPreview ==
    /\ req.pc = "export"
    /\ \/ /\ HostFailure(StlFailText)
          /\ obs' = ObserveFailure(obs, StlFailText, FALSE, "")
          /\ UNCHANGED dir
       \/ /\ HostFailure(StepFailText)
          /\ obs' = ObserveFailure(obs, StepFailText, FALSE, "")
          /\ dir' = [dir EXCEPT !.files["preview.stl"] = StlOf(req.result_model, 4)]
       \/ /\ req' = [req EXCEPT !.pc = "write"]
          /\ UNCHANGED <<nfaults, obs>>
          /\ dir' = [dir EXCEPT !.files["preview.stl"] = StlOf(req.result_model, 4),
                                !.files["preview.step"] = StepOf(req.result_model)]
    /\ UNCHANGED <<hist, chat, reg, sb, tl, MODELS, nreq>>

\* line 1008: export the result over model.step
ExportModel ==
    /\ req.pc = "write"
    /\ \/ /\ HostFailure(StepFailText)
          /\ obs' = ObserveFailure(obs, StepFailText, FALSE, "")
          /\ UNCHANGED dir
       \/ /\ req' = [req EXCEPT !.pc = "glb"]
          /\ UNCHANGED nfaults
          /\ dir' = [dir EXCEPT !.files["model.step"] = StepOf(req.result_model)]
          /\ obs' = [obs EXCEPT !.writes = @ + 1]
    /\ UNCHANGED <<hist, chat, reg, sb, tl, MODELS, nreq>>

\* line 1011: _stl_to_glb(stl_path, glb_path)
StlToGlb ==
    /\ req.pc = "glb"
    /\ \/ /\ HostFailure(GlbFailText)
          /\ obs' = ObserveFailure(obs, GlbFailText, FALSE, "")
          /\ UNCHANGED dir
       \/ /\ req' = [req EXCEPT !.pc = "commit"]
          /\ UNCHANGED <<nfaults, obs>>
          /\ dir' = [dir EXCEPT !.files["preview.glb"] = GlbOf(dir.files["preview.stl"])]
    /\ UNCHANGED <<hist, chat, reg, sb, tl, MODELS, nreq>>

\* lines 1015-1043: the revision for the request
commit_revision(d, from_version, message) ==
    IF from_version # 0
    THEN LET from_commit == commit_of_version(d, from_version)
         IN  IF from_commit # 0
             THEN save_revision_from(d, from_commit, message, FileNames)
             ELSE save_revision(d, message, FileNames)
    ELSE save_revision(d, message, FileNames)

\* A git call that raises ends the attempt.  get_history, the reset and
\* index.add raise before anything has changed; save_revision_from makes two
\* calls, and when save_revision raises after revert_to the reset stays.
Commit ==
    /\ req.pc = "commit"
    /\ \/ /\ HostFailure(GitFailText)
          /\ obs' = ObserveFailure(obs, GitFailText, FALSE, "")
          /\ UNCHANGED dir
       \/ /\ commit_of_version(dir, req.from_version) \notin {0, dir.head}
          /\ HostFailure(GitFailText)
          /\ obs' = ObserveFailure(obs, GitFailText, FALSE, "")
          /\ dir' = revert_to(dir, commit_of_version(dir, req.from_version))
       \/ /\ req' = [req EXCEPT !.pc = "success"]
          /\ UNCHANGED nfaults
          /\ dir' = commit_revision(dir, req.from_version, prompt_100(req.prompt))
          /\ obs' = [obs EXCEPT !.snap = dir.files,
                                !.from_commit = commit_of_version(dir, req.from_version),
                                !.head_before = dir.head]
    /\ UNCHANGED <<hist, chat, reg, sb, tl, MODELS, nreq>>

\* str.encode('ascii', 'replace').decode('ascii'): every character outside
\* ASCII becomes a question mark
ascii_replace(text) == IF text = LoadFailText THEN LoadFailTextAscii ELSE text

\* lines 1072-1073: the detail of the final HTTP 500
error_message(last_err) ==
    <<"Failed after", MAX_RETRIES, "attempts. Last error:", ascii_replace(last_err)>>

\* lines 1051-1058 and 1068-1079: the response leaves the handler
Return ==
    /\ req.pc \in {"success", "failed"}
    /\ req' = IdleReq
    /\ obs' = IdleObs
    /\ UNCHANGED <<hist, chat, reg, sb, tl, MODELS, dir, nreq, nfaults>>

(* ---------------------------- intent routing -------------------------- *)
\* IntentType, and the confidences of the classifier in tenths
IntentTypes == {"modification", "query", "help", "analysis", "unknown"}
Confidences == {4, 5}

\* heatmap.glb as _handle_analysis exports it from the mesh of preview.stl
HeatmapOf(stl) == <<"heatmap", stl[2], stl[3]>>

\* the tolerance cq.exporters.export uses when none is given
DefaultTolerance == 0

ChatInit == [intent |-> "none", confidence |-> 0, heatmap |-> NoFile]

\* a routing that sends an unknown intent to the modification path from a
\* confidence of 0.3 on
route_of_low_threshold(intent, confidence) ==
    IF intent \in {"help", "query", "analysis"} THEN intent
    ELSE IF intent = "unknown" /\ confidence < 3 THEN "unclear"
    ELSE "modification"
\* lines 857-924: the branch chat_prompt takes for a classification
route_of(intent, confidence) ==
    IF intent \in {"help", "query", "analysis"} THEN intent
    ELSE IF intent = "unknown" /\ confidence < 5 THEN "unclear"
    ELSE "modification"

\* chat_prompt from its first line to the return of a help, query, analysis
\* or unclear prompt, or to the start of the retry loop.  mesh_ok: the mesh
\* of preview.stl loads in _handle_analysis.
ChatPrompt(intent, confidence, long, mesh_ok) ==
    /\ MODELS
    /\ req.pc = "idle"
    /\ LET route == route_of(intent, confidence)
       IN  CASE route \in {"help", "query", "unclear"} ->
                  /\ chat' = [chat EXCEPT !.intent = intent, !.confidence = confidence]
                  /\ UNCHANGED <<dir, req, obs, nreq>>
             [] route = "analysis" ->
                  LET stl == IF dir.files["preview.stl"] = NoFile
                             THEN StlOf(importStep(dir.files["model.step"]),
                                        DefaultTolerance)
                             ELSE dir.files["preview.stl"]
                  IN  /\ dir' = [dir EXCEPT !.files["preview.stl"] = stl]
                      /\ chat' = [chat EXCEPT !.intent = intent,
                                              !.confidence = confidence,
                                              !.heatmap = IF mesh_ok THEN HeatmapOf(stl)
                                                          ELSE @]
                      /\ UNCHANGED <<req, obs, nreq>>
             [] route = "modification" ->
                  /\ nreq < MaxRequests
                  /\ nreq' = nreq + 1
                  /\ req' = [IdleReq EXCEPT !.pc = "gen", !.prompt = Prompt(long, <<>>)]
                  /\ obs' = [IdleObs EXCEPT !.start_model = dir.files["model.step"],
                                            !.objects_at_start = Len(dir.objects),
                                            !.head_at_start = dir.head]
                  /\ chat' = [chat EXCEPT !.intent = intent, !.confidence = confidence]
                  /\ UNCHANGED dir
    /\ UNCHANGED <<hist, reg, sb, tl, MODELS, nfaults>>

(* ---------------------------- several models -------------------------- *)
\* Two models served by one process.  Requests for different models are
\* interleaved step by step; the steps of one request are those of
\* chat_prompt and of the worker it starts.
ModelIds == {"A", "B"}
NoPath == ""
\* names tempfile.NamedTemporaryFile may hand out; it never hands out the name
\* of a file that exists
TmpNames == {"tmp1.step", "tmp2.step"}

\* upload_step line 144: DATA_DIR / model_id
dir_of(model_id) == model_id

\* the snippets of the requests on the two models
\* the geometries uploaded and asked for: two that differ
ModelGeoms == {1, 3}
ModelSnippets ==
    {Snippet("return", FALSE, "", g) : g \in ModelGeoms}
    \cup {Snippet("raise", FALSE, "boom", 0)}

\* the first 100 characters of the instruction of a request
RequestMessage == <<"request">>

\* one chat_prompt call on a model: position, snippet, worker and its queue
IdleCall ==
    [pc |-> "idle", code |-> NoSnippet, from_version |-> 0, worker |-> "none",
     q |-> <<>>, result_model |-> 0]

\* the requests two clients send for one model, and the task the event loop
\* creates for each: position, snippet, the model.step it verified against,
\* the result, the commit it made; waited: it arrived while a handler ran
Requests == {"r1", "r2"}
NoReq == ""
LoopModel == "A"
NoTask ==
    [pc |-> "none", code |-> NoSnippet, before |-> NoFile, result_model |-> 0,
     commit |-> 0, waited |-> FALSE]

\* alone[m]: the directory of model m as the operations on m make it when
\* they run on a process that serves m only
RegInit ==
    [MODELS |-> [m \in ModelIds |-> NoPath],
     timelines |-> [m \in ModelIds |-> NoPath],
     fs |-> [p \in ModelIds |-> EmptyDir],
     tmp |-> [t \in TmpNames |-> NoFile],
     calls |-> [m \in ModelIds |-> IdleCall],
     alone |-> [m \in ModelIds |-> EmptyDir],
     tasks |-> [r \in Requests |-> NoTask],
     running |-> NoReq]

\* a registry that hands out the timeline cached first, whatever the id
get_timeline_first_cached(timelines, model_id, model_dir) ==
    LET cached == {timelines[m] : m \in ModelIds} \ {NoPath}
    IN  IF timelines[model_id] # NoPath THEN timelines
        ELSE [timelines EXCEPT ![model_id] =
                 IF cached = {} THEN model_dir ELSE CHOOSE p \in cached : TRUE]
\* timeline.get_timeline: the registry after the call; the timeline returned
\* is the entry of model_id, given by the repo_path it was constructed with
get_timeline(timelines, model_id, model_dir) ==
    IF timelines[model_id] = NoPath
    THEN [timelines EXCEPT ![model_id] = model_dir]
    ELSE timelines

\* endpoints_cad.upload_step with a fresh uuid4 as model id
MUpload(m, g) ==
    /\ reg.MODELS[m] = NoPath
    /\ LET model_dir == dir_of(m)
           files == regen_preview([NoTree EXCEPT !["model.step"] = StepOf(g)])
           written == [reg.fs EXCEPT ![model_dir].files = files]
           timelines == get_timeline(reg.timelines, m, model_dir)
           repo_path == timelines[m]
       IN  reg' = [reg EXCEPT
                     !.MODELS[m] = model_dir,
                     !.timelines = timelines,
                     !.fs = [written EXCEPT ![repo_path] =
                                save_revision(written[repo_path], <<"Initial upload">>,
                                              FileNames)],
                     !.alone[m] = save_revision([EmptyDir EXCEPT !.files = files],
                                                <<"Initial upload">>, FileNames)]
    /\ UNCHANGED <<hist, chat, sb, MODELS, dir, req, obs, nreq, nfaults, tl>>

\* chat_prompt up to run_ai_cadquery's p.start(): the generator has returned
\* the snippet and the worker process is started
MStart(m, code, from_version) ==
    /\ reg.MODELS[m] # NoPath
    /\ reg.calls[m].pc = "idle"
    /\ Len(reg.fs[reg.MODELS[m]].objects) < MaxModelCommits
    /\ from_version \in 0..Len(get_history(reg.fs[reg.MODELS[m]]))
    /\ reg' = [reg EXCEPT !.calls[m] =
                  [IdleCall EXCEPT !.pc = "exec", !.code = code,
                                   !.from_version = from_version,
                                   !.worker = "running"]]
    /\ UNCHANGED <<hist, chat, sb, MODELS, dir, req, obs, nreq, nfaults, tl>>

\* _worker of the invocation for m: the result goes to a temporary file of
\* its own and the report to the queue of the invocation
MWorker(m) ==
    /\ reg.calls[m].worker = "running"
    /\ LET code == reg.calls[m].code
       IN  IF code.kind = "return"
           THEN \E name \in TmpNames :
                   /\ reg.tmp[name] = NoFile
                   /\ reg' = [reg EXCEPT !.tmp[name] = StepOf(code.geom),
                                         !.calls[m].q = <<<<"ok", name>>>>,
                                         !.calls[m].worker = "exited"]
           ELSE reg' = [reg EXCEPT !.calls[m].q = <<worker_report(code, safe_builtins)>>,
                                   !.calls[m].worker = "exited"]
    /\ UNCHANGED <<hist, chat, sb, MODELS, dir, req, obs, nreq, nfaults, tl>>

\* the temporary file an attempt leaves is not read again
release(tmp, res) ==
    IF res.ok THEN [tmp EXCEPT ![res.step_path] = NoFile] ELSE tmp

\* run_ai_cadquery returns and chat_prompt compares the signatures (lines
\* 957-991); an attempt that fails ends the call here
MReturn(m) ==
    /\ reg.calls[m].pc = "exec"
    /\ reg.calls[m].worker = "exited"
    /\ LET res == run_result(reg.calls[m].worker, reg.calls[m].q)
       IN  IF res.ok
           THEN LET result_model == importStep(reg.tmp[res.step_path])
                    before == importStep(reg.fs[reg.MODELS[m]].files["model.step"])
                IN  IF same_signature(before, result_model)
                    THEN reg' = [reg EXCEPT !.calls[m] = IdleCall,
                                            !.tmp = release(reg.tmp, res)]
                    ELSE reg' = [reg EXCEPT !.calls[m].pc = "export",
                                            !.calls[m].q = Tail(@),
                                            !.calls[m].result_model = result_model,
                                            !.tmp = release(reg.tmp, res)]
           ELSE reg' = [reg EXCEPT !.calls[m] = IdleCall]
    /\ UNCHANGED <<hist, chat, sb, MODELS, dir, req, obs, nreq, nfaults, tl>>

\* lines 994-1011: the four files of the result in the model directory
MExport(m) ==
    /\ reg.calls[m].pc = "export"
    /\ reg' = [reg EXCEPT
                  !.fs[reg.MODELS[m]].files = ModelFiles(reg.calls[m].result_model),
                  !.alone[m].files = ModelFiles(reg.calls[m].code.geom),
                  !.calls[m].pc = "commit"]
    /\ UNCHANGED <<hist, chat, sb, MODELS, dir, req, obs, nreq, nfaults, tl>>

\* lines 1015-1043: the revision, on the timeline get_timeline returns
MCommit(m) ==
    /\ reg.calls[m].pc = "commit"
    /\ LET timelines == get_timeline(reg.timelines, m, reg.MODELS[m])
           repo_path == timelines[m]
           from_version == reg.calls[m].from_version
       IN  reg' = [reg EXCEPT
                     !.timelines = timelines,
                     !.fs[repo_path] = commit_revision(@, from_version, RequestMessage),
                     !.alone[m] = commit_revision(@, from_version, RequestMessage),
                     !.calls[m] = IdleCall]
    /\ UNCHANGED <<hist, chat, sb, MODELS, dir, req, obs, nreq, nfaults, tl>>

\* endpoints_chat.checkout_version for a version of the history of m
MCheckout(m, version) ==
    /\ reg.MODELS[m] # NoPath
    /\ reg.calls[m].pc = "idle"
    /\ LET timelines == get_timeline(reg.timelines, m, reg.MODELS[m])
           repo_path == timelines[m]
       IN  /\ version \in 1..Len(get_history(reg.fs[repo_path]))
           /\ reg' = [reg EXCEPT
                         !.timelines = timelines,
                         !.fs[repo_path] =
                             checkout_version(@, commit_of_version(@, version)),
                         !.alone[m] =
                             checkout_version(@, commit_of_version(@, version))]
    /\ UNCHANGED <<hist, chat, sb, MODELS, dir, req, obs, nreq, nfaults, tl>>

NextModels ==
    \/ \E m \in ModelIds, g \in ModelGeoms : MUpload(m, g)
    \/ \E m \in ModelIds, code \in ModelSnippets, from_version \in 0..MaxModelCommits :
          MStart(m, code, from_version)
    \/ \E m \in ModelIds : MWorker(m)
    \/ \E m \in ModelIds : MReturn(m)
    \/ \E m \in ModelIds : MExport(m)
    \/ \E m \in ModelIds : MCommit(m)
    \/ \E m \in ModelIds, version \in 1..MaxModelCommits : MCheckout(m, version)

(* ---------------------------- the event loop --------------------------- *)
\* Two chat_prompt requests for one model on the server's single event loop.
\* uvicorn makes a task of each request; the loop runs a task until it awaits
\* or returns.

\* the server accepts a request while the loop may be busy
LAccept(r, code) ==
    /\ reg.MODELS[LoopModel] # NoPath
    /\ reg.tasks[r].pc = "none"
    /\ reg' = [reg EXCEPT !.tasks[r] =
                  [NoTask EXCEPT !.pc = "ready", !.code = code,
                                 !.waited = reg.running # NoReq]]
    /\ UNCHANGED <<hist, chat, sb, MODELS, dir, req, obs, nreq, nfaults, tl>>

\* a loop that takes another task while the handler is between the
\* verification and the commit
loop_free_at_commit(running, tasks) ==
    IF running = NoReq THEN TRUE ELSE tasks[running].pc = "commit"
\* the loop can take another task: chat_prompt contains no await, so the
\* running handler gives the loop back only by returning
loop_free(running, tasks) == running = NoReq

\* the loop starts, or resumes, the task of request r
LDispatch(r) ==
    /\ reg.tasks[r].pc \in {"ready", "commit"}
    /\ reg.running # r
    /\ loop_free(reg.running, reg.tasks)
    /\ reg' = [reg EXCEPT !.running = r,
                          !.tasks[r].pc = IF @ = "ready" THEN "exec" ELSE @]
    /\ UNCHANGED <<hist, chat, sb, MODELS, dir, req, obs, nreq, nfaults, tl>>

\* lines 948-991 in the running handler: generation, the blocking
\* run_ai_cadquery call and the signature comparison; an attempt that fails
\* ends the request here
LExecute(r) ==
    /\ reg.running = r
    /\ reg.tasks[r].pc = "exec"
    /\ Len(reg.fs[reg.MODELS[LoopModel]].objects) < MaxModelCommits
    /\ \E res \in RunResults(reg.tasks[r].code) :
          LET before == reg.fs[reg.MODELS[LoopModel]].files["model.step"]
          IN  IF res.ok /\ ~same_signature(importStep(before), importStep(res.step_path))
              THEN reg' = [reg EXCEPT !.tasks[r].pc = "commit",
                                      !.tasks[r].before = before,
                                      !.tasks[r].result_model = importStep(res.step_path)]
              ELSE reg' = [reg EXCEPT !.tasks[r].pc = "failed"]
    /\ UNCHANGED <<hist, chat, sb, MODELS, dir, req, obs, nreq, nfaults, tl>>

\* lines 994-1043 in the running handler: the files and the revision
LCommit(r) ==
    /\ reg.running = r
    /\ reg.tasks[r].pc = "commit"
    /\ LET model_dir == reg.MODELS[LoopModel]
           written == [reg.fs[model_dir] EXCEPT
                         !.files = ModelFiles(reg.tasks[r].result_model)]
           committed == commit_revision(written, 0, RequestMessage)
       IN  reg' = [reg EXCEPT !.fs[model_dir] = committed,
                              !.tasks[r].commit = committed.head,
                              !.tasks[r].pc = "success"]
    /\ UNCHANGED <<hist, chat, sb, MODELS, dir, req, obs, nreq, nfaults, tl>>

\* the handler returns and the loop is free again
LReturn(r) ==
    /\ reg.running = r
    /\ reg.tasks[r].pc \in {"success", "failed"}
    /\ reg' = [reg EXCEPT !.running = NoReq, !.tasks[r].pc = "done"]
    /\ UNCHANGED <<hist, chat, sb, MODELS, dir, req, obs, nreq, nfaults, tl>>

NextLoop ==
    \/ \E g \in ModelGeoms : MUpload(LoopModel, g)
    \/ \E r \in Requests, code \in ModelSnippets : LAccept(r, code)
    \/ \E r \in Requests : LDispatch(r)
    \/ \E r \in Requests : LExecute(r)
    \/ \E r \in Requests : LCommit(r)
    \/ \E r \in Requests : LReturn(r)

(* ---------------------------- execution history ------------------------ *)
\* agentic_loop.py: the history of operations run against Onshape
None == 0
NoShape == ""
Context(document_id, workspace_id, element_id) ==
    [document_id |-> document_id, workspace_id |-> workspace_id,
     element_id |-> element_id]
\* two part studios of one document
Contexts == {Context("d1", "w1", "e1"), Context("d1", "w1", "e2")}
NoContext == Context("", "", "")

\* the keys of a history entry the code reads back; an absent key reads None
Entry(operation_id, status, c, created, transform, shape, size) ==
    [operation_id |-> operation_id, status |-> status,
     document_id |-> c.document_id, workspace_id |-> c.workspace_id,
     element_id |-> c.element_id,
     created_feature_id |-> created, transform_feature_id |-> transform,
     created_shape |-> shape, size_mm |-> size]
NoEntry == Entry(0, "none", NoContext, None, None, NoShape, None)

ChatActions ==
    {"add_center_box", "cut_pocket", "resize_last_shape", "replace_last_shape"}
\* every prompt asks for the same size
SizeMm == 3

\* the last call: its kind, its context, how a prompt ended, what a
\* clear call returned
Call(op, c, outcome, ret) ==
    [op |-> op, ctx |-> c, outcome |-> outcome, ret |-> ret]
NoCall == Call("none", NoContext, "none", <<0, 0>>)
HistInit == [items |-> <<>>, disk |-> <<>>, nops |-> 0, call |-> NoCall]

\* deque(maxlen).appendleft: a full deque drops its rightmost item
appendleft(items, e) ==
    IF Len(items) < HistoryMaxLen THEN <<e>> \o items
    ELSE <<e>> \o SubSeq(items, 1, HistoryMaxLen - 1)

is_created_shape(item) ==
    /\ item.status = "executed"
    /\ item.created_feature_id # None
    /\ item.created_shape # NoShape
    /\ item.size_mm # None

_latest_created_shape_entry(items) ==
    LET found == {i \in 1..Len(items) : is_created_shape(items[i])}
    IN  IF found = {} THEN NoEntry
        ELSE items[CHOOSE i \in found : \A j \in found : i <= j]

\* one prompt that parses to an action; remote_ok: the Onshape calls of the
\* action succeeded; with_transform: add_cube_at_position returned a
\* transform feature id
ProcessChatPrompt(c, action, remote_ok, with_transform) ==
    /\ hist.nops < MaxPrompts
    /\ LET n == hist.nops + 1
           entry == _latest_created_shape_entry(hist.items)
           transform == IF with_transform THEN n ELSE None
           done(e, outcome) ==
               [hist EXCEPT !.items = appendleft(@, e),
                            !.disk = appendleft(hist.items, e),
                            !.nops = n,
                            !.call = Call("prompt", c, outcome, <<0, 0>>)]
           returned(outcome) ==
               [hist EXCEPT !.nops = n,
                            !.call = Call("prompt", c, outcome, <<0, 0>>)]
       IN  CASE action = "resize_last_shape" ->
                  IF entry = NoEntry THEN hist' = returned("no_entry")
                  ELSE IF remote_ok
                  THEN hist' = done(Entry(n, "executed", c,
                                          entry.created_feature_id, None,
                                          entry.created_shape, SizeMm),
                                    "executed")
                  ELSE hist' = returned("failed")
             [] action = "replace_last_shape" ->
                  IF entry = NoEntry THEN hist' = returned("no_entry")
                  ELSE IF remote_ok
                  THEN hist' = done(Entry(n, "executed", c, n, transform,
                                          entry.created_shape, entry.size_mm),
                                    "executed")
                  ELSE hist' = returned("failed")
             [] action = "add_center_box" ->
                  IF remote_ok
                  THEN hist' = done(Entry(n, "executed", c, n, transform,
                                          "box", SizeMm), "executed")
                  ELSE hist' = done(Entry(n, "failed", c, None, None,
                                          NoShape, None), "failed")
             [] OTHER ->
                  IF remote_ok
                  THEN hist' = done(Entry(n, "executed", c, None, None,
                                          NoShape, None), "executed")
                  ELSE hist' = done(Entry(n, "failed", c, None, None,
                                          NoShape, None), "failed")
    /\ UNCHANGED <<sb, MODELS, dir, req, obs, nreq, nfaults, tl, reg, chat>>

is_same_context_any_element(item, c) ==
    /\ item.document_id = c.document_id
    /\ item.workspace_id = c.workspace_id
is_same_context(item, c) ==
    /\ item.document_id = c.document_id
    /\ item.workspace_id = c.workspace_id
    /\ item.element_id = c.element_id

has_created_feature(item) ==
    item.created_feature_id # None \/ item.transform_feature_id # None

\* the feature ids of the executed items of the context, in history order
RECURSIVE feature_ids(_, _)
feature_ids(items, c) ==
    IF items = <<>> THEN <<>>
    ELSE LET item == Head(items)
             own == IF item.status = "executed" /\ is_same_context(item, c)
                    THEN (IF item.transform_feature_id # None
                          THEN <<item.transform_feature_id>> ELSE <<>>)
                         \o (IF item.created_feature_id # None
                             THEN <<item.created_feature_id>> ELSE <<>>)
                    ELSE <<>>
         IN  own \o feature_ids(Tail(items), c)

remaining_items(items, c) ==
    SelectSeq(items,
              LAMBDA item : ~(is_same_context(item, c) /\ has_created_feature(item)))

\* deleted_count: how many of the remote deletions, one per feature id,
\* succeeded
ClearGeneratedEdits(c, deleted_count) ==
    /\ deleted_count \in 0..Len(feature_ids(hist.items, c))
    /\ hist' = [hist EXCEPT
                   !.items = remaining_items(@, c),
                   !.disk = remaining_items(hist.items, c),
                   !.call = Call("clear", c, "none",
                                 <<deleted_count,
                                   Len(feature_ids(hist.items, c))>>)]
    /\ UNCHANGED <<sb, MODELS, dir, req, obs, nreq, nfaults, tl, reg, chat>>

Init ==
    /\ SbInit
    /\ MODELS = FALSE
    /\ dir = EmptyDir
    /\ req = IdleReq
    /\ obs = IdleObs
    /\ nreq = 0
    /\ nfaults = 0
    /\ tl = IdleTl
    /\ reg = RegInit
    /\ chat = ChatInit
    /\ hist = HistInit

Next ==
    \/ \E g \in UploadGeoms : Upload(g)
    \/ \E long \in InstructionKinds, from_version \in 0..(Len(get_history(dir)) + 1) :
          StartRequest(long, from_version)
    \/ Generate
    \/ Execute
    \/ Verify
    \/ ExportPreview
    \/ ExportModel
    \/ StlToGlb
    \/ Commit
    \/ Return

Spec == Init /\ [][Next]_vars

\* the version endpoints next to the prompt endpoint; the host-side steps do
\* not fail here (the budget of injected failures starts spent)
InitVersions ==
    /\ SbInit
    /\ MODELS = FALSE
    /\ dir = EmptyDir
    /\ req = IdleReq
    /\ obs = IdleObs
    /\ nreq = 0
    /\ nfaults = MaxFaults
    /\ tl = IdleTl
    /\ reg = RegInit
    /\ chat = ChatInit
    /\ hist = HistInit

NextVersions ==
    \/ \E g \in UploadGeoms : Upload(g)
    \/ \E long \in InstructionKinds, from_version \in 0..(Len(get_history(dir)) + 1) :
          StartRequest(long, from_version)
    \/ \E version \in 0..(Len(get_history(dir)) + 1) : CheckoutEndpoint(version)
    \/ Generate
    \/ Execute
    \/ Verify
    \/ ExportPreview
    \/ ExportModel
    \/ StlToGlb
    \/ Commit
    \/ Return

SpecVersions == InitVersions /\ [][NextVersions]_vars

\* requests whose instruction is shorter than 100 characters, host-side steps
\* not failing
ShortInstructionKinds == {FALSE}

NextShort ==
    \/ \E g \in UploadGeoms : Upload(g)
    \/ \E long \in ShortInstructionKinds, from_version \in 0..(Len(get_history(dir)) + 1) :
          StartRequest(long, from_version)
    \/ Generate
    \/ Execute
    \/ Verify
    \/ ExportPreview
    \/ ExportModel
    \/ StlToGlb
    \/ Commit
    \/ Return

SpecShort == InitVersions /\ [][NextShort]_vars

\* the direct-edit endpoints next to the modification requests and checkouts
NextEndpoints ==
    \/ \E g \in UploadGeoms : Upload(g)
    \/ \E long \in InstructionKinds, from_version \in 0..(Len(get_history(dir)) + 1) :
          StartRequest(long, from_version)
    \/ \E version \in 0..(Len(get_history(dir)) + 1) : CheckoutEndpoint(version)
    \/ \E g \in Geoms : Apply(g)
    \/ SaveCheckpoint
    \/ Generate
    \/ Execute
    \/ Verify
    \/ ExportPreview
    \/ ExportModel
    \/ StlToGlb
    \/ Commit
    \/ Return

SpecEndpoints == InitVersions /\ [][NextEndpoints]_vars

SpecModels == Init /\ [][NextModels]_vars

SpecLoop == Init /\ [][NextLoop]_vars

\* prompts of every intent on an uploaded model
NextIntent ==
    \/ \E g \in UploadGeoms : Upload(g)
    \/ \E intent \in IntentTypes, confidence \in Confidences,
          long \in InstructionKinds, mesh_ok \in BOOLEAN :
          ChatPrompt(intent, confidence, long, mesh_ok)
    \/ Generate
    \/ Execute
    \/ Verify
    \/ ExportPreview
    \/ ExportModel
    \/ StlToGlb
    \/ Commit
    \/ Return

SpecIntent == InitVersions /\ [][NextIntent]_vars

\* the Onshape loop: prompts and clear-edits calls in any order
NextHistory ==
    \/ \E c \in Contexts, action \in ChatActions, remote_ok \in BOOLEAN,
          with_transform \in BOOLEAN :
          ProcessChatPrompt(c, action, remote_ok, with_transform)
    \/ \E c \in Contexts :
          \E deleted_count \in 0..Len(feature_ids(hist.items, c)) :
             ClearGeneratedEdits(c, deleted_count)

SpecHistory == Init /\ [][NextHistory]_vars

\* the prompt endpoint with run_ai_cadquery taken step by step, host-side
\* steps not failing; the generator returns snippets of every kind
StepSnippets ==
    {Snippet("return", FALSE, "", g) : g \in Geoms}
    \cup {Snippet(k, FALSE, "", 0) : k \in {"nomodify", "wrongtype", "loop", "crash"}}
    \cup {Snippet("raise", FALSE, m, 0) : m \in {"boom", ""}}

NextStepwise ==
    \/ \E g \in UploadGeoms : Upload(g)
    \/ \E long \in InstructionKinds, from_version \in 0..(Len(get_history(dir)) + 1) :
          StartRequest(long, from_version)
    \/ GenerateFrom(StepSnippets)
    \/ ExecuteStart
    \/ DeadlineElapses
    \/ JoinReturns
    \/ RunFinish
    \/ WorkerFinish
    \/ WorkerExit
    \/ ExecuteReturn
    \/ Verify
    \/ ExportPreview
    \/ ExportModel
    \/ StlToGlb
    \/ Commit
    \/ Return

SpecStepwise == InitVersions /\ [][NextStepwise]_vars

\* snippets that never return or end the worker process, and one that works
HostileSnippets ==
    {Snippet("loop", FALSE, "", 0), Snippet("crash", FALSE, "", 0),
     Snippet("return", FALSE, "", NumGeoms)}

NextHostile ==
    \/ \E g \in UploadGeoms : Upload(g)
    \/ \E long \in InstructionKinds : StartRequest(long, 0)
    \/ GenerateFrom(HostileSnippets)
    \/ ExecuteStart
    \/ DeadlineElapses
    \/ JoinReturns
    \/ RunFinish
    \/ WorkerFinish
    \/ WorkerExit
    \/ ExecuteReturn
    \/ Verify
    \/ ExportPreview
    \/ ExportModel
    \/ StlToGlb
    \/ Commit
    \/ Return

\* the generator and the host-side steps return, time passes and the caller
\* of run_ai_cadquery keeps running; nothing is assumed of the worker
FairSpecHostile ==
    /\ InitVersions
    /\ [][NextHostile]_vars
    /\ WF_vars(GenerateFrom(HostileSnippets))
    /\ WF_vars(ExecuteStart)
    /\ WF_vars(DeadlineElapses)
    /\ WF_vars(JoinReturns)
    /\ WF_vars(RunFinish)
    /\ WF_vars(ExecuteReturn)
    /\ WF_vars(Verify)
    /\ WF_vars(ExportPreview)
    /\ WF_vars(ExportModel)
    /\ WF_vars(StlToGlb)
    /\ WF_vars(Commit)
    /\ WF_vars(Return)

NextSandbox == SandboxStep

SpecSandbox == Init /\ [][NextSandbox]_vars

\* time passes and the caller of run_ai_cadquery keeps running
FairSpecSandbox ==
    /\ SpecSandbox
    /\ WF_vars(DeadlineElapses)
    /\ WF_vars(JoinReturns)
    /\ WF_vars(RunFinish)

\* the geometries the caller of the timeline class writes: two that differ
TlGeoms == {1, 3}

\* the messages of the direct timeline calls
SaveMessage == <<"save">>
EditMessage == <<"edit">>

NextTimeline ==
    \/ \E g \in TlGeoms : WriteModel(g)
    \/ TlSaveRevision(SaveMessage)
    \/ \E c \in 1..MaxCommits : TlCheckoutVersion(c)
    \/ \E c \in 1..MaxCommits : TlSaveRevisionFrom(c, EditMessage)

SpecTimeline == Init /\ [][NextTimeline]_vars

\* the summary RunResults covers every result the stepwise executor returns
RunResultsCoverInv == sb.pc = "returned" => sb.result \in RunResults(sb.code)
(* ---------------------------- properties ------------------------------- *)
CanonicalFile == dir.files["model.step"]
HeadTree == dir.objects[dir.head].tree

\* C1: a request that ends in FAILED leaves model.step as it was when the
\* request started.
C1_RequestAtomicity ==
    req.pc = "failed" => CanonicalFile = obs.start_model

\* C2: a request that returns success has appended exactly one revision, and
\* both model.step in the working directory and model.step recorded in the
\* new HEAD revision equal the sandbox output of the successful attempt.
C2_SuccessPostcondition ==
    req.pc = "success" =>
        /\ Len(dir.objects) = obs.objects_at_start + 1
        /\ dir.head = Len(dir.objects)
        /\ CanonicalFile = req.exec_res.step_path
        /\ HeadTree["model.step"] = req.exec_res.step_path

\* C3: save_revision_from called with a from_commit that is not HEAD, while
\* the working files differ from the last revision, records a new revision on
\* top of from_commit whose snapshot is the working files as they were at the
\* moment of the call.
C3_TruncateCommitsPending ==
    (/\ req.pc = "success"
     /\ obs.from_commit # 0
     /\ obs.from_commit # obs.head_before
     /\ obs.snap # dir.objects[obs.head_before].tree) =>
        /\ dir.objects[dir.head].parent = obs.from_commit
        /\ HeadTree = obs.snap

\* C4: within one request model.step is written at most once, and no attempt
\* that is followed by another attempt (or by the final failure) has written
\* it: up to the write of the current attempt, model.step is as it was at
\* the start of the request.
C4_SingleVerifiedWrite ==
    /\ obs.writes <= 1
    /\ req.pc \in {"gen", "exec", "verify", "export", "write", "failed"} =>
           CanonicalFile = obs.start_model

\* C5: an attempt whose sandbox output has the same rounded (volume, area)
\* signature as the current model.step ends as a failed attempt that is
\* retried (or exhausts the retries); it writes no file and appends no
\* revision.
C5_NoOpNeverCommits ==
    [][(/\ req.pc = "verify"
        /\ bbox_sig(importStep(req.exec_res.step_path)) = bbox_sig(importStep(CanonicalFile)))
       => (/\ dir' = dir
           /\ req'.attempt = req.attempt + 1
           /\ req'.pc = IF req.attempt + 1 < 3 THEN "gen" ELSE "failed"
           /\ req'.last_err \in {NoOpText, LoadFailText})]_vars

\* C5 witness: an attempt was classified as a no-op and the request retries
C5_Witness ==
    /\ req.pc = "gen"
    /\ req.attempt > 0
    /\ req.last_err = NoOpText

\* C6: a request never makes more than 3 attempts, generator calls or sandbox
\* executions; while every attempt so far ended in a snippet error the
\* generator calls and sandbox executions alternate one to one, and such a
\* request fails after exactly 3 of each.
C6_BoundedRetries ==
    /\ req.attempt <= 3
    /\ obs.gen_calls <= 3
    /\ obs.exec_calls <= obs.gen_calls
    /\ req.pc = "failed" => req.attempt = 3
    /\ req.pc \in {"gen", "exec", "verify", "export", "write", "glb", "commit", "success"}
           => req.attempt < 3
    /\ obs.only_snippet_err =>
           /\ req.pc # "success"
           /\ obs.exec_calls = req.attempt
           /\ obs.gen_calls = req.attempt + (IF req.pc = "exec" THEN 1 ELSE 0)
    /\ (req.pc = "failed" /\ obs.only_snippet_err) =>
           (obs.gen_calls = 3 /\ obs.exec_calls = 3)

\* C6 witness: a request whose three snippets all raised has failed
C6_Witness ==
    /\ req.pc = "failed"
    /\ obs.only_snippet_err
    /\ obs.exec_calls = 3

\* C7: for a snippet that never returns, run_ai_cadquery returns: not before
\* the deadline has elapsed, with the timeout failure and no output artifact,
\* and with the worker no longer running.
C7_TimeoutEnforcement ==
    /\ [](/\ (sb.pc = "returned" /\ sb.code.kind = "loop") =>
                 /\ sb.elapsed
                 /\ sb.result = [ok |-> FALSE, error |-> TimeoutText, step_path |-> NoFile]
          /\ sb.pc \in {"returned", "idle"} => sb.worker \notin {"running", "reported"})
    /\ ((sb.pc = "join" /\ sb.code.kind = "loop") ~> (sb.pc = "returned"))

\* C7 witness: the invocation for a looping snippet has returned a timeout
C7_Witness ==
    /\ sb.pc = "returned"
    /\ sb.code.kind = "loop"
    /\ sb.worker = "killed"
    /\ sb.result.error = TimeoutText

\* C8: no snippet obtains a module through an import statement.
C8_NoImportCapability ==
    ~sb.imported

\* the result of the invocation comes from an ("error", text) report
SnippetErrorReturned ==
    /\ sb.pc = "returned"
    /\ sb.worker = "exited"
    /\ sb.q # <<>>
    /\ sb.q[1][1] = "error"

\* C9: the result returned for a snippet-level error is never equal to the
\* result returned for a timeout.
C9_TimeoutDistinctFromError ==
    SnippetErrorReturned =>
        sb.result # [ok |-> FALSE, error |-> TimeoutText, step_path |-> NoFile]

\* C10: a worker that ends without a report yields the no_result outcome,
\* which differs from the timeout and snippet-error results; a worker crash
\* and a failed export of the resulting model each yield no_result.
C10_NoResultOutcome ==
    LET no_result == [ok |-> FALSE, error |-> NoResultText, step_path |-> NoFile]
    IN  /\ (sb.pc = "returned" /\ sb.worker = "exited" /\ sb.q = <<>>) =>
               sb.result = no_result
        /\ SnippetErrorReturned => sb.result # no_result
        /\ (sb.pc = "returned" /\ sb.worker = "killed") => sb.result # no_result
        /\ (/\ sb.pc = "returned"
            /\ sb.worker = "exited"
            /\ sb.code.kind \in {"crash", "exportfail"}) => sb.result = no_result

\* C11: a save_revision_from from revision k of a history of N revisions,
\* k < N, leaves a history of exactly k+1 entries: the first k are the
\* entries that were there (same commit ids, same order, versions 1..k) and
\* the new revision is the last one, with version k+1.
C11_TruncationLinearity ==
    [][(tl'.op = "save_from" /\ tl'.k >= 1 /\ tl'.k < tl'.n) =>
          LET old == get_history(dir)
              new == get_history(dir')
              k == tl'.k
          IN  /\ Len(old) = tl'.n
              /\ Len(new) = k + 1
              /\ \A i \in 1..k : new[i] = old[i]
              /\ new[k + 1].version = k + 1
              /\ new[k + 1].commit_hash = Len(dir.objects) + 1
              /\ new[k + 1].message = EditMessage
              /\ dir'.head = new[k + 1].commit_hash]_vars

\* a truncation from revision 1 of 3 has happened: two revisions discarded
C11_Witness ==
    /\ tl.op = "save_from"
    /\ tl.k = 1
    /\ tl.n = 3
    /\ Len(get_history(dir)) = 2

\* C12: while no truncation has happened, get_history lists exactly as many
\* entries as save_revision was called, oldest first and numbered 1..N with
\* no gap, whatever checkouts were interleaved and also when a save_revision
\* found no file changed.
C12_MonotonicVersions ==
    tl.truncs = 0 =>
        IF tl.saves = 0
        THEN dir.head = 0
        ELSE /\ Len(get_history(dir)) = tl.saves
             /\ \A i \in 1..tl.saves :
                   /\ get_history(dir)[i].version = i
                   /\ get_history(dir)[i].commit_hash = i

\* three revisions saved, a checkout in between, and the last save_revision
\* found the files as the revision before it had them
C12_Witness ==
    /\ tl.truncs = 0
    /\ tl.saves = 3
    /\ tl.checked
    /\ tl.op = "save"
    /\ dir.objects[3].tree = dir.objects[2].tree

\* C13: checkout_version of a revision of the history changes working files
\* only: get_history is the same list before and after, get_current_version
\* the same revision, and no commit is added.
C13_CheckoutNonDestructive ==
    [][(tl'.op = "checkout" /\ tl'.k >= 1) =>
          /\ get_history(dir') = get_history(dir)
          /\ get_current_version(dir') = get_current_version(dir)
          /\ dir'.head = dir.head
          /\ dir'.objects = dir.objects
          /\ dir'.files = dir.objects[tl'.commit].tree]_vars

\* an older revision is checked out: the files are its files, not HEAD's
C13_Witness ==
    /\ tl.op = "checkout"
    /\ tl.k >= 1
    /\ tl.k < tl.n
    /\ dir.files = dir.objects[tl.commit].tree
    /\ dir.files # dir.objects[dir.head].tree

\* C14: truncation is irreversible.  Once a truncation has removed a revision
\* from the history, no call on the timeline makes its contents observable
\* again: a checkout by the commit id of a revision that the history no
\* longer lists never delivers files that no listed revision has.
C14_TruncationIrreversible ==
    (/\ tl.op = "checkout"
     /\ tl.truncs > 0
     /\ tl.commit \notin history_commits(dir))
    => \E c \in history_commits(dir) : dir.objects[c].tree = dir.files

\* C19: on a timeline with no revisions get_current_version returns None and
\* get_history returns the empty list, no error being raised; on a timeline
\* with revisions get_current_version returns the HEAD revision.
C19_EmptyTimelineReads ==
    IF Len(dir.objects) = 0
    THEN /\ get_current_version(dir) = <<>>
         /\ get_history(dir) = <<>>
    ELSE /\ get_current_version(dir).commit_hash = dir.head
         /\ get_current_version(dir) \in
               {get_history(dir)[i] : i \in 1..Len(get_history(dir))}

\* C15: a request that names a version absent from the history is surfaced
\* as an error at once: a checkout of a missing version, and a modification
\* request whose from_version is not in the history, are not attempted, append
\* no revision and leave the history as it was.
C15_TimelineNotFound ==
    /\ (tl.op = "checkout" /\ tl.k \notin 1..tl.n) => tl.status = 404
    /\ (/\ req.pc # "idle"
        /\ req.from_version # 0
        /\ req.from_version \notin 1..Len(chain(dir, obs.head_at_start)))
       => /\ obs.gen_calls = 0
          /\ req.pc # "success"
          /\ Len(dir.objects) = obs.objects_at_start

\* C15, as the code has it: a checkout of a version that is not in the
\* history is answered at once with status 404 and changes neither the files
\* nor the history nor the request state.  A modification request whose
\* from_version is not in the history is accepted like any other, and when it
\* succeeds its revision is appended after the current HEAD, no revision
\* being discarded.
C15_AbsentVersion ==
    [][/\ (tl' # tl /\ tl'.op = "checkout" /\ tl'.k \notin 1..Len(get_history(dir)))
          => (tl'.status = 404 /\ dir' = dir /\ req' = req)
       /\ (req.pc = "idle" /\ req'.pc # "idle") => req'.pc = "gen"
       /\ (/\ req.pc = "commit"
           /\ req'.pc = "success"
           /\ req.from_version # 0
           /\ req.from_version \notin 1..Len(get_history(dir)))
          => get_history(dir') =
                Append(get_history(dir),
                       [version |-> Len(get_history(dir)) + 1,
                        commit_hash |-> Len(dir.objects) + 1,
                        message |-> prompt_100(req.prompt)])]_vars

\* a checkout of a missing version was refused, and a request naming a
\* missing version has committed its revision
C15_Witness ==
    /\ tl.op = "checkout"
    /\ tl.status = 404
    /\ req.pc = "success"
    /\ req.from_version # 0
    /\ obs.from_commit = 0
    /\ Len(dir.objects) = obs.objects_at_start + 1

\* C16: no failed attempt changes the timeline.  As long as the request has
\* not succeeded, and when it has ended as failed, the history and HEAD are
\* those the request found, whatever from_version it names: no revision was
\* appended and none discarded.
C16_FailureLeavesTimeline ==
    req.pc \in {"gen", "exec", "verify", "export", "write", "glb", "commit", "failed"}
    => /\ dir.head = obs.head_at_start
       /\ Len(dir.objects) = obs.objects_at_start

\* C17: the message of the revision a successful request commits is the
\* instruction the caller gave, cut to its first 100 characters, also when
\* the success came on the second or third attempt: no feedback text is in it.
C17_MessageIsInstruction ==
    req.pc = "success" =>
        /\ dir.objects[dir.head].message.long = req.prompt.long
        /\ dir.objects[dir.head].message.feedback = <<>>

\* C18: the detail of the error a failed request returns carries the error
\* recorded by its last attempt (non-ASCII characters replaced), whatever its
\* kind, never the error of an earlier attempt when the last one differs.
C18_LastErrorReturned ==
    req.pc = "failed" =>
        /\ req.attempt = MAX_RETRIES
        /\ error_message(req.last_err) =
              <<"Failed after", MAX_RETRIES, "attempts. Last error:",
                IF obs.last_failure = LoadFailText THEN LoadFailTextAscii
                ELSE obs.last_failure>>

\* the first attempt failed in the sandbox, the third one on loading the
\* result: the request failed with the third attempt's error
C18_Witness ==
    /\ req.pc = "failed"
    /\ Len(req.prompt.feedback) >= 1
    /\ req.prompt.feedback[1] = <<"Previous code failed with:", "boom">>
    /\ obs.last_failure = LoadFailText
    /\ req.last_err # "boom"

\* C20: when the sandbox result of attempt k < 3 is not ok, the prompt given
\* to the generator in attempt k+1 is the prompt of attempt k followed by a
\* block carrying attempt k's error text; the generator is called at most
\* three times and not again once the third attempt has ended.
C20_FeedbackAccumulates ==
    [][/\ (obs'.gen_calls = obs.gen_calls + 1 /\ obs.exec_failed)
          => LET old == obs.gen_prompt
                 new == obs'.gen_prompt
                 n == Len(old.feedback)
             IN  /\ obs.gen_calls < MAX_RETRIES
                 /\ new.long = old.long
                 /\ Len(new.feedback) = n + 1
                 /\ \A i \in 1..n : new.feedback[i] = old.feedback[i]
                 /\ new.feedback[n + 1][1] = "Previous code failed with:"
                 /\ new.feedback[n + 1][2] =
                       (IF obs.exec_error = "" THEN "Unknown execution error"
                        ELSE obs.exec_error)
       /\ obs'.gen_calls <= MAX_RETRIES
       /\ (req.pc = "failed" => obs'.gen_calls \in {0, obs.gen_calls})]_vars

\* the third call of the generator, after two sandbox failures of different
\* kinds: its prompt carries both error texts in order
C20_Witness ==
    /\ obs.gen_calls = 3
    /\ req.pc = "exec"
    /\ Len(obs.gen_prompt.feedback) = 2
    /\ obs.gen_prompt.feedback[1] = <<"Previous code failed with:", TimeoutText>>
    /\ obs.gen_prompt.feedback[2] = <<"Previous code failed with:", "Unknown execution error">>

\* C21: a generator failure is one failed attempt, is caught inside the
\* handler, and its error text is part of the prompt the generator is given on
\* the next attempt, as for the other kinds of failed attempt.
C21_GeneratorFailureFolded ==
    (/\ req.pc = "gen"
     /\ req.attempt >= 1
     /\ obs.last_failure = GenFailText)
    => /\ obs.gen_calls = req.attempt
       /\ req.last_err = GenFailText
       /\ \E i \in 1..Len(req.prompt.feedback) :
              \E j \in 1..Len(req.prompt.feedback[i]) :
                 req.prompt.feedback[i][j] = GenFailText

\* the snippet-level failures: the snippet raises, defines no callable
\* modify, or modify returns something that is not a Workplane
SnippetFailureKinds == {"raise", "nomodify", "wrongtype"}

\* C22: for a snippet that raises, one that defines no callable modify and
\* one whose modify returns something else than a model, run_ai_cadquery
\* returns ok = false, a non-empty error text and no step_path.
C22_SnippetFailureResult ==
    (sb.pc = "returned" /\ sb.code.kind \in SnippetFailureKinds)
    => /\ ~sb.result.ok
       /\ sb.result.step_path = NoFile
       /\ sb.result.error # ""

\* C22, as the code has it: for these snippets run_ai_cadquery returns
\* ok = false and no step_path; the error is the text of the failure (the
\* exception's message, or the fixed text of the missing modify or of the
\* wrong return type) or the timeout text, so it is empty exactly when the
\* exception has an empty message.  The handler counts each as one failed
\* attempt, recording "Unknown execution error" for an empty text, and
\* leaves the directory alone.
C22_SnippetFailureRetried ==
    [][(/\ req.pc = "exec"
        /\ sb.pc = "returned"
        /\ sb'.pc = "idle"
        /\ sb.code.kind \in SnippetFailureKinds)
       => /\ ~sb.result.ok
          /\ sb.result.step_path = NoFile
          /\ sb.result.error \in
                {TimeoutText,
                 CASE sb.code.kind = "raise" -> sb.code.msg
                   [] sb.code.kind = "nomodify" -> NoModifyText
                   [] sb.code.kind = "wrongtype" -> WrongTypeText}
          /\ req'.attempt = req.attempt + 1
          /\ req'.pc = (IF req.attempt + 1 < MAX_RETRIES THEN "gen" ELSE "failed")
          /\ req'.last_err = (IF sb.result.error = "" THEN "Unknown execution error"
                              ELSE sb.result.error)
          /\ dir' = dir]_vars

\* the three attempts were a snippet without modify, one returning the wrong
\* type and one raising with an empty message: the request has failed
C22_Witness ==
    /\ req.pc = "failed"
    /\ req.last_err = "Unknown execution error"
    /\ sb.code = Snippet("raise", FALSE, "", 0)
    /\ sb.result = ExecResult(FALSE, "", NoFile)
    /\ req.prompt.feedback =
          <<<<"Previous code failed with:", NoModifyText>>,
            <<"Previous code failed with:", WrongTypeText>>,
            <<"Previous code failed with:", "Unknown execution error">>>>

\* the steps of chat_prompt that may follow one another
StepOrder ==
    {<<"idle", "gen">>, <<"gen", "exec">>, <<"exec", "verify">>, <<"exec", "gen">>,
     <<"exec", "failed">>, <<"verify", "export">>, <<"verify", "gen">>,
     <<"verify", "failed">>, <<"export", "write">>, <<"write", "glb">>,
     <<"glb", "commit">>, <<"commit", "success">>, <<"success", "idle">>,
     <<"failed", "idle">>}

\* C23: the steps of one request follow the order generate, execute, verify,
\* export, commit, and attempts do not overlap: the sandbox of attempt k
\* starts after generation k has returned, the verification follows an ok
\* result, the export and commit follow a signature that differs, generation
\* k+1 follows the recording of attempt k as failed, and a worker is alive
\* only while the handler is inside run_ai_cadquery, so never two at once.
C23_StateMachineOrder ==
    [][/\ req'.pc # req.pc => <<req.pc, req'.pc>> \in StepOrder
       /\ is_alive(sb.worker) => (req.pc = "exec" /\ sb.pc \in {"join", "joined"})
       /\ (sb.pc = "idle" /\ sb'.pc = "join")
          => /\ req.pc = "exec"
             /\ ~is_alive(sb.worker)
             /\ obs.gen_calls = req.attempt + 1
             /\ obs.exec_calls = req.attempt
             /\ sb'.code = req.last_code
       /\ (req.pc = "exec" /\ req'.pc = "verify")
          => (sb.pc = "returned" /\ sb.result.ok /\ req'.exec_res = sb.result)
       /\ (req.pc = "verify" /\ req'.pc = "export")
          => bbox_sig(importStep(req.exec_res.step_path))
                # bbox_sig(importStep(dir.files["model.step"]))
       /\ dir'.objects # dir.objects => (req.pc = "commit" \/ ~MODELS)
       /\ obs'.gen_calls = obs.gen_calls + 1
          => /\ obs.gen_calls = req.attempt
             /\ sb.pc = "idle"
             /\ ~is_alive(sb.worker)]_vars

\* the worker of the second attempt runs; the worker of the first attempt
\* ran into the deadline and was killed before run_ai_cadquery returned
C23_Witness ==
    /\ req.pc = "exec"
    /\ req.attempt = 1
    /\ obs.last_failure = TimeoutText
    /\ sb.pc = "join"
    /\ sb.worker = "running"

C25_HeadIsLastRevision ==
    dir.head # 0 =>
        LET history == get_history(dir)
            current == get_current_version(dir)
        IN  /\ Len(history) >= 1
            /\ Cardinality({i \in 1..Len(history) :
                               history[i].commit_hash = dir.head}) = 1
            /\ current = history[Len(history)]
            /\ current.version = Len(history)
            /\ current.commit_hash = dir.head

\* a truncation has happened and an older revision of the surviving history
\* is checked out
C25_Witness ==
    /\ tl.truncs > 0
    /\ tl.op = "checkout"
    /\ tl.k >= 1
    /\ tl.k < tl.n
    /\ dir.files # dir.objects[dir.head].tree
    /\ get_current_version(dir).version = Len(get_history(dir))

\* C28: save_revision_from with from_commit_hash equal to the HEAD commit
\* discards nothing and does what save_revision does: the working files are
\* left as they are and committed, and the history afterwards is the history
\* before followed by one new last entry.
C28_TruncateAtHeadIsSave ==
    [][(tl'.op = "save_from" /\ tl'.commit = dir.head) =>
          LET old == get_history(dir)
              new == get_history(dir')
          IN  /\ dir' = save_revision(dir, EditMessage, FileNames)
              /\ dir'.files = dir.files
              /\ dir'.objects[dir'.head].tree = dir.files
              /\ \A c \in 1..Len(dir.objects) : dir'.objects[c] = dir.objects[c]
              /\ new = Append(old, [version |-> Len(old) + 1,
                                    commit_hash |-> Len(dir.objects) + 1,
                                    message |-> EditMessage])]_vars

\* a save_revision_from from the HEAD revision has committed files that
\* differ from that revision's
C28_Witness ==
    /\ tl.op = "save_from"
    /\ tl.k = tl.n
    /\ tl.n >= 2
    /\ dir.head = Len(dir.objects)
    /\ dir.objects[dir.head].parent = tl.commit
    /\ dir.objects[dir.head].tree # dir.objects[tl.commit].tree
    /\ Len(get_history(dir)) = tl.n + 1

\* C29: checkout round trip.  After a checkout of an older revision, with no
\* save_revision and no save_revision_from since, a checkout of the latest
\* revision leaves every tracked file, and the index, with the contents the
\* latest revision records; the history is not touched.
C29_CheckoutRoundTrip ==
    [][(tl.older /\ tl'.op = "checkout" /\ tl'.commit = dir.head) =>
          /\ \A f \in FileNames :
                /\ dir'.files[f] = dir.objects[dir.head].tree[f]
                /\ dir'.files[f] # NoFile
          /\ dir'.index = dir.objects[dir.head].tree
          /\ dir'.head = dir.head
          /\ dir'.objects = dir.objects]_vars

\* the latest revision is checked out after an older one with other contents
C29_Witness ==
    /\ tl.older
    /\ tl.op = "checkout"
    /\ tl.commit = dir.head
    /\ tl.k = tl.n
    /\ \E c \in history_commits(dir) : dir.objects[c].tree # dir.files
    /\ dir.files = dir.objects[dir.head].tree

\* C26: HEAD is the revision the working files reflect.  Whenever no request
\* is running on an uploaded model (after the upload, successful
\* modifications, checkouts and truncations), each of the four files of the
\* model directory has the contents recorded in the revision that
\* get_current_version returns.
C26_HeadReflectsWorkingFiles ==
    (MODELS /\ req.pc = "idle" /\ dir.head # 0) =>
        LET current == get_current_version(dir)
        IN  \A f \in FileNames :
               dir.files[f] = dir.objects[current.commit_hash].tree[f]

\* C27: after the upload only the commit step of a modification request and
\* the timeline operations change model.step, so whenever no request is
\* running model.step has the content some revision of the history records
\* for it; the apply and save endpoints do not change it without a revision.
C27_CanonicalIsRecorded ==
    (MODELS /\ req.pc = "idle") =>
        \E c \in history_commits(dir) :
           dir.objects[c].tree["model.step"] = dir.files["model.step"]

C32_RequestTerminates ==
    /\ [](obs.gen_calls <= MAX_RETRIES /\ obs.exec_calls <= MAX_RETRIES
          /\ req.attempt <= MAX_RETRIES)
    /\ (req.pc # "idle") ~> (req.pc \in {"success", "failed"})

\* a request has failed after three invocations, the last one cut off at the
\* deadline with the worker killed
C32_Witness ==
    /\ req.pc = "failed"
    /\ obs.exec_calls = MAX_RETRIES
    /\ req.last_err = TimeoutText
    /\ sb.code.kind = "loop"
    /\ sb.worker = "killed"

\* C33: every result run_ai_cadquery returns is well formed.  ok is true
\* exactly when step_path is present and exactly when error is None; the
\* timeout, no-result and snippet-error results carry no step_path; an ok
\* result names the file the worker had finished exporting before it
\* reported, and the worker is no longer alive.
C33_ResultWellFormed ==
    sb.pc = "returned" =>
        LET res == sb.result
        IN  /\ res.ok <=> res.step_path # NoFile
            /\ res.ok <=> res.error = NoError
            /\ res.error \in {TimeoutText, NoResultText} => res.step_path = NoFile
            /\ sb.code.kind # "return" => ~res.ok
            /\ res.ok => /\ sb.code.kind = "return"
                         /\ res.step_path = StepOf(sb.code.geom)
                         /\ sb.q # <<>>
                         /\ Head(sb.q)[1] = "ok"
                         /\ ~is_alive(sb.worker)

\* results of each kind have been returned: here an error result whose text
\* is the empty message of the snippet's exception
C33_Witness ==
    /\ sb.pc = "returned"
    /\ sb.code.kind = "raise"
    /\ sb.code.msg = ""
    /\ sb.result = ExecResult(FALSE, "", NoFile)
    /\ sb.worker = "exited"

\* C34: a report the worker put on the queue before the deadline is never
\* discarded.  Whatever the order of the worker's put, the worker's exit and
\* the caller's check after the join, an invocation whose worker reported
\* before the deadline elapsed returns the result of that report and not the
\* timeout.
C34_ReportNeverDiscarded ==
    (sb.pc = "returned" /\ sb.intime)
    => /\ sb.q # <<>>
       /\ sb.result = result_of(Head(sb.q))
       /\ sb.result # TimeoutResult

\* C35: a prompt classified as help or query, or as unknown with a confidence
\* below 0.5, starts no generation and no sandbox invocation and leaves
\* model.step, the previews and the repository as they were; a prompt
\* classified as analysis leaves model.step and the repository as they were.
C35_NonModificationFrame ==
    [][(chat'.intent # chat.intent \/ chat'.confidence # chat.confidence)
       => /\ (\/ chat'.intent \in {"help", "query"}
              \/ (chat'.intent = "unknown" /\ chat'.confidence < 5))
             => /\ req'.pc = "idle"
                /\ obs'.gen_calls = obs.gen_calls
                /\ obs'.exec_calls = obs.exec_calls
                /\ sb' = sb
                /\ nreq' = nreq
                /\ dir' = dir
                /\ chat'.heatmap = chat.heatmap
          /\ chat'.intent = "analysis"
             => /\ req'.pc = "idle"
                /\ sb' = sb
                /\ dir'.files["model.step"] = dir.files["model.step"]
                /\ dir'.objects = dir.objects
                /\ dir'.head = dir.head
                /\ dir'.index = dir.index]_vars

\* an unknown prompt of confidence 0.4 was answered after a modification had
\* been committed and a heatmap made: two revisions, no request running
C35_Witness ==
    /\ chat.intent = "unknown"
    /\ chat.confidence = 4
    /\ chat.heatmap # NoFile
    /\ req.pc = "idle"
    /\ Len(dir.objects) = 2

\* C36: the execution history holds at most HistoryMaxLen entries, newest
\* first; every operation that ended executed or failed is inserted at the
\* front, and inserting into a full history evicts the oldest entry; the
\* lookup of the last created shape returns the most recent executed entry
\* that has a created feature, a shape and a size.
C36_NewestFirst ==
    /\ Len(hist.items) <= HistoryMaxLen
    /\ \A i, j \in 1..Len(hist.items) :
          i < j => hist.items[i].operation_id > hist.items[j].operation_id
C36_LookupMostRecent ==
    LET e == _latest_created_shape_entry(hist.items)
        created == {i \in 1..Len(hist.items) :
                       /\ hist.items[i].status = "executed"
                       /\ hist.items[i].created_feature_id # None
                       /\ hist.items[i].created_shape # NoShape
                       /\ hist.items[i].size_mm # None}
    IN  IF created = {} THEN e = NoEntry
        ELSE \E i \in created :
                /\ e = hist.items[i]
                /\ \A j \in created :
                      hist.items[j].operation_id <= e.operation_id
C36_InsertedAtFront ==
    (hist'.nops = hist.nops + 1 /\ hist'.call.outcome \in {"executed", "failed"})
    => /\ hist'.items # <<>>
       /\ hist'.items[1].operation_id = hist'.nops
       /\ hist'.items[1].status = hist'.call.outcome
       /\ Tail(hist'.items)
             = IF Len(hist.items) < HistoryMaxLen THEN hist.items
               ELSE SubSeq(hist.items, 1, Len(hist.items) - 1)
C36_HistoryNewestFirst ==
    /\ [](C36_NewestFirst /\ C36_LookupMostRecent)
    /\ [][C36_InsertedAtFront]_vars

\* C37: clear_generated_edits_for_context removes exactly the entries of the
\* context that carry a created or a transform feature id, whatever the remote
\* deletions did, keeps every other entry in its relative order, and returns
\* (deleted, total) with 0 <= deleted <= total, total being the number of
\* feature ids in the executed entries of the context.
C37_ClearStep ==
    LET c == hist'.call.ctx
        old == hist.items
        new == hist'.items
        in_context(i) ==
            /\ old[i].document_id = c.document_id
            /\ old[i].workspace_id = c.workspace_id
            /\ old[i].element_id = c.element_id
        kept == {i \in 1..Len(old) :
                    ~(in_context(i)
                      /\ (old[i].created_feature_id # None
                          \/ old[i].transform_feature_id # None))}
        ids == {<<i, k>> \in (1..Len(old)) \X {"created", "transform"} :
                   /\ in_context(i)
                   /\ old[i].status = "executed"
                   /\ IF k = "created" THEN old[i].created_feature_id # None
                      ELSE old[i].transform_feature_id # None}
    IN  /\ Len(new) = Cardinality(kept)
        /\ \A i \in kept : new[Cardinality({j \in kept : j <= i})] = old[i]
        /\ hist'.call.ret[2] = Cardinality(ids)
        /\ hist'.call.ret[1] \in 0..hist'.call.ret[2]
C37_ClearRemovesContextEdits ==
    [][(hist' # hist /\ hist'.call.op = "clear") => C37_ClearStep]_vars
\* a clear call removed an entry although a remote deletion failed, and kept
\* two entries of other contexts
C37_Witness ==
    /\ hist.call.op = "clear"
    /\ hist.call.ret[1] < hist.call.ret[2]
    /\ Len(hist.items) >= 2
    /\ \E i \in 1..Len(hist.items) :
          /\ hist.items[i].created_feature_id # None
          /\ hist.items[i].document_id = hist.call.ctx.document_id
          /\ hist.items[i].element_id # hist.call.ctx.element_id

============================================================================
